---- MODULE Spec2Model ----
(***************************************************************************)
(* ContractSniffer: the block-watching pipeline of utils/block_watcher.py  *)
(* (watch_new_contracts and its per-transaction workers _process_tx) and   *)
(* the endpoint selection of utils/node_finder.py                          *)
(* (get_working_public_nodes).                                             *)
(***************************************************************************)
EXTENDS Integers, Sequences, FiniteSets, TLC

\* ------------------------------------------------------------------ bounds
NumEndpoints == 2   \* len(rpc_entries)
MaxHead == 2        \* highest block number the chain reaches
MaxTx == 2          \* most transactions in one block
MaxLag == 1         \* how far behind the chain an endpoint's head may be

MaxNodes == 3       \* most nodes the directory page lists
MaxBurst == 2       \* largest burst argument
MaxLatency == 2     \* largest latency measured, in ms

Endpoints == 0 .. (NumEndpoints - 1)
BlockNumbers == 0 .. MaxHead
TxSlots == 1 .. MaxTx
NoBlock == -1                                   \* from_block=None; no block number yet
NoAddress == [id |-> "none", form |-> "none"]   \* addr = None; an absent receipt field
NoResult == <<>>                                \* a future's result None

\* ------------------------------------------------------------------ values
\* Wei amounts exceed 32 bits: an amount is hi * 10^9 + lo, 0 <= lo < 10^9.
Wei(h, l) == [hi |-> h, lo |-> l]
WeiGreater(a, b) == a.hi > b.hi \/ (a.hi = b.hi /\ a.lo > b.lo)
WeiSucc(a) == IF a.lo = 10^9 - 1 THEN Wei(a.hi + 1, 0) ELSE Wei(a.hi, a.lo + 1)

\* int(0.1 * 1e18) = 10^17 = 10^8 * 10^9
Threshold == Wei(10^8, 0)

Balances == {Wei(0, 0), Threshold, WeiSucc(Threshold), Wei(2 * 10^9, 0)}

\* Addresses as the node returns them (any letter case) and checksummed.
AddressIds == {"a", "b"}
RawAddresses == [id : AddressIds, form : {"lower", "checksum"}]
to_checksum_address(raw) == [raw EXCEPT !.form = "checksum"]

CodeValues == {"empty", "code"}

Receipts == [contractAddress : RawAddresses \cup {NoAddress},
             to : RawAddresses \cup {NoAddress}]

\* Nodes are numbered 1 .. MaxNodes in the order the directory page lists them.
\* The worker threads of a probe phase.
Threads == 1 .. MaxNodes
NoNode == 0
NoLatency == -1     \* latency_ms None
Latencies == 0 .. MaxLatency

\* ------------------------------------------------------------------ state
VARIABLES
    \* the environment
    head,            \* the chain's highest block number
    up_at_start,     \* up_at_start[e]: endpoint e answers a head request at startup
    flaky,           \* TRUE when requests made after startup may fail
    chain_code,      \* chain_code[id]: what get_code may return for the address
    chain_balance,   \* chain_balance[id]: what get_balance may return for it
    risen_at,        \* risen_at[id]: get_block calls made when the balance last rose back
    block_log,       \* (block number, fetched) for every get_block call so far
    \* watch_new_contracts
    pc,              \* position of the generator
    from_block,      \* the caller's starting block, or NoBlock
    max_workers,     \* size of the thread pool (lines 55-57)
    start_cursor,    \* the cursor the loop started with (line 68), or NoBlock
    rr_w3,           \* index of the endpoint the cycle iterator returns next
    rr_log,          \* the endpoints the last NumEndpoints next(rr_w3) calls returned
    current,         \* the scan cursor
    latest,          \* the head the last successful head fetch returned
    block_number,    \* loop variable of the range loop
    seen_contracts,  \* the shared set of addresses
    events,          \* the (address, balance) pairs yielded so far
    \* the futures of the block being processed, one per transaction
    wpc,             \* wpc[i]: position of the worker of transaction i
    wreceipt,        \* wreceipt[i]: outcome of the worker's receipt fetch
    addr,            \* addr[i]: the worker's checksummed address
    wcode,           \* wcode[i]: outcome of the worker's get_code
    wbalance,        \* wbalance[i]: <<b>> once the worker's get_balance returned b
    result,          \* result[i]: the future's result
    collected,       \* futures whose result the generator has taken
    \* get_working_public_nodes
    spc,             \* position of the selecting thread
    burst,           \* the burst argument
    top_n,           \* the top_n argument
    all_nodes,       \* the scraped nodes
    queue,           \* latency_queue, then rate_queue: the items not yet taken
    holding,         \* holding[t]: the item worker thread t took, or NoNode
    latency_results, \* (node, latency) in the order the workers appended them
    top_nodes,       \* the nodes chosen for the burst probe
    rate_results,    \* (node, success_count) in the order the workers appended them
    working          \* the list returned

envVars == <<head, up_at_start, flaky, chain_code, chain_balance, risen_at>>
loopVars == <<pc, from_block, max_workers, start_cursor, current, latest, block_number, events, block_log>>
workerVars == <<wpc, wreceipt, addr, wcode, wbalance, result, collected>>
selectorVars == <<spc, burst, top_n, all_nodes, queue, holding, latency_results,
                  top_nodes, rate_results, working>>
watcherVars == <<head, up_at_start, flaky, chain_code, chain_balance, risen_at, block_log, pc, from_block, max_workers, start_cursor, rr_w3, rr_log, current, latest,
                 block_number, seen_contracts, events, wpc, wreceipt, addr, wcode,
                 wbalance, result, collected>>
vars == <<watcherVars, selectorVars>>

\* Lines 55-57: max_workers=None becomes twice the number of endpoints.
DefaultMaxWorkers == 2 * NumEndpoints

\* The pool sizes tried: one thread, and the default.
MaxWorkersArgs == {1, DefaultMaxWorkers}

\* No balance has dropped and risen back after a report.
NotRisen == [a \in AddressIds |-> NoBlock]

\* The last NumEndpoints entries of a sequence of endpoints.
LastCalls(log) ==
    IF Len(log) <= NumEndpoints THEN log ELSE SubSeq(log, Len(log) - NumEndpoints + 1, Len(log))

\* next(rr_w3) of itertools.cycle: the endpoint returned, and the advance.
\* The call is one C-level step of the iterator, taken with the interpreter
\* lock held.
rr_next == rr_w3

\* The advance of a call is lost.
rr_advance_lost ==
    /\ rr_w3' = rr_w3
    /\ rr_log' = LastCalls(Append(rr_log, rr_next))

\* Line 29: the cycle moves to the next endpoint, wrapping after the last.
rr_advance ==
    /\ rr_w3' = (rr_w3 + 1) % NumEndpoints
    /\ rr_log' = LastCalls(Append(rr_log, rr_next))

\* Whether a request made after startup succeeds.
Outcomes == IF flaky THEN BOOLEAN ELSE {TRUE}

\* What an endpoint may report as the head: the chain's, or one lagging it.
HeadViews == {h \in BlockNumbers : h <= head /\ head - h <= MaxLag}

NoWorkers == [i \in TxSlots |-> "none"]
NoAddresses == [i \in TxSlots |-> NoAddress]
NoResults == [i \in TxSlots |-> NoResult]
NotFetched == [i \in TxSlots |-> "unfetched"]
NoBalances == [i \in TxSlots |-> <<>>]

NoFutures ==
    /\ wpc' = NoWorkers
    /\ wreceipt' = NotFetched
    /\ addr' = NoAddresses
    /\ wcode' = NotFetched
    /\ wbalance' = NoBalances
    /\ result' = NoResults
    /\ collected' = {}

WatcherStart ==
    /\ pc = "init"
    /\ block_log = <<>>
    /\ rr_w3 = 0
    /\ rr_log = <<>>
    /\ start_cursor = NoBlock
    /\ current = NoBlock
    /\ latest = NoBlock
    /\ block_number = NoBlock
    /\ seen_contracts = {}
    /\ events = <<>>
    /\ wpc = NoWorkers
    /\ wreceipt = NotFetched
    /\ addr = NoAddresses
    /\ wcode = NotFetched
    /\ wbalance = NoBalances
    /\ result = NoResults
    /\ collected = {}

SelectorStart ==
    /\ spc = "start"
    /\ all_nodes = <<>>
    /\ queue = <<>>
    /\ holding = [t \in Threads |-> NoNode]
    /\ latency_results = <<>>
    /\ top_nodes = <<>>
    /\ rate_results = <<>>
    /\ working = <<>>

\* Any request may fail, and code and balances may change between requests.
Init ==
    /\ head \in BlockNumbers
    /\ up_at_start \in [Endpoints -> BOOLEAN]
    /\ flaky = TRUE
    /\ chain_code = [a \in AddressIds |-> CodeValues]
    /\ chain_balance = [a \in AddressIds |-> Balances]
    /\ from_block \in BlockNumbers \cup {NoBlock}
    /\ max_workers \in MaxWorkersArgs
    /\ risen_at = NotRisen
    /\ WatcherStart
    /\ burst = 1
    /\ top_n = 1
    /\ SelectorStart

\* ------------------------------------------------------------ environment
\* The chain grows. Whether a request succeeds, and what code and balance an
\* address has when it is asked for, is the environment's choice at each call.
NewBlock ==
    /\ head < MaxHead
    /\ head' = head + 1
    /\ UNCHANGED <<up_at_start, flaky, chain_code, chain_balance, risen_at, rr_w3, rr_log, seen_contracts>>
    /\ UNCHANGED loopVars
    /\ UNCHANGED workerVars
    /\ UNCHANGED selectorVars

\* ------------------------------------------------- watch_new_contracts
FirstHeadFetchedOrGiven == up_at_start[rr_next] \/ from_block # NoBlock

\* Lines 62-66: the head fetch on the first endpoint of the rotation.
FirstHeadFetched == up_at_start[rr_next]

\* Lines 61-68: the first head fetch and the starting cursor.
InitHead ==
    /\ pc = "init"
    /\ rr_advance
    /\ IF FirstHeadFetched
       THEN \E h \in HeadViews :
                /\ latest' = h
                /\ current' = IF from_block # NoBlock THEN from_block ELSE h
                /\ start_cursor' = current'
                /\ pc' = "poll"
       ELSE /\ pc' = "fatal"
            /\ UNCHANGED <<latest, current, start_cursor>>
    /\ UNCHANGED <<from_block, max_workers, block_number, events, block_log, seen_contracts>>
    /\ UNCHANGED envVars
    /\ UNCHANGED workerVars
    /\ UNCHANGED selectorVars

NoNewBlocksEq(h) == h = current

\* A head one above the cursor is taken for no new block.
NoNewBlocksOffByOne(h) == h <= current + 1

\* Line 80.
NoNewBlocks(h) == h <= current

\* A failed head fetch ends the generator.
PollFailedRaises ==
    /\ pc' = "fatal"
    /\ UNCHANGED <<latest, block_number>>

\* Lines 74-78: a failed head fetch; sleep, then poll again.
PollFailed ==
    /\ pc' = "sleep"
    /\ UNCHANGED <<latest, block_number>>

\* Lines 72-83: one poll of the head.
Poll ==
    /\ pc = "poll"
    /\ rr_advance
    /\ \E ok \in Outcomes :
        IF ok
        THEN \E h \in HeadViews :
                /\ latest' = h
                /\ IF NoNewBlocks(h)
                   THEN pc' = "sleep" /\ UNCHANGED block_number
                   ELSE pc' = "get_block" /\ block_number' = current + 1
        ELSE PollFailed
    /\ UNCHANGED <<from_block, max_workers, start_cursor, current, events, block_log, seen_contracts>>
    /\ UNCHANGED envVars
    /\ UNCHANGED workerVars
    /\ UNCHANGED selectorVars

\* Lines 77, 82: time.sleep(poll_interval), then the next iteration.
Sleep ==
    /\ pc = "sleep"
    /\ pc' = "poll"
    /\ UNCHANGED <<from_block, max_workers, start_cursor, rr_w3, rr_log, current, latest, block_number, events,
                   block_log, seen_contracts>>
    /\ UNCHANGED envVars
    /\ UNCHANGED workerVars
    /\ UNCHANGED selectorVars

CursorPlusOne == current + 1

\* Line 112: the cursor after the range.
CursorAfterRange == latest

\* The cursor follows the range loop block by block.
NextBlockOrEndPerBlock ==
    IF block_number < latest
    THEN /\ block_number' = block_number + 1
         /\ pc' = "get_block"
         /\ current' = block_number
    ELSE /\ current' = CursorAfterRange
         /\ block_number' = NoBlock
         /\ pc' = "poll"

\* The range loop moves to its next block number, or ends (lines 86, 112).
NextBlockOrEnd ==
    IF block_number < latest
    THEN /\ block_number' = block_number + 1
         /\ pc' = "get_block"
         /\ UNCHANGED current
    ELSE /\ current' = CursorAfterRange
         /\ block_number' = NoBlock
         /\ pc' = "poll"

\* Lines 99-103: exe.submit for transaction i of n. The pool starts a thread
\* per submission up to max_workers; later work items wait in its queue.
Submit(i, n) ==
    IF i > n THEN "none"
    ELSE IF i <= max_workers THEN "receipt"
    ELSE "queued"

\* A failed fetch ends the range.
SkipRest ==
    /\ current' = CursorAfterRange
    /\ block_number' = NoBlock
    /\ pc' = "poll"

\* A failed fetch is tried again.
RetryBlock ==
    /\ pc' = "get_block"
    /\ UNCHANGED <<block_number, current>>

\* Lines 90-92: a failed fetch skips the block; the range loop goes on.
SkipBlock == NextBlockOrEnd

\* Lines 87-103: fetch one block and submit a worker per transaction.
GetBlock ==
    /\ pc = "get_block"
    /\ rr_advance
    /\ \E ok \in Outcomes :
        /\ block_log' = Append(block_log, <<block_number, ok>>)
        /\ IF ok
           THEN \E n \in 0 .. MaxTx :
                IF n = 0
                THEN NextBlockOrEnd /\ UNCHANGED workerVars
                ELSE /\ pc' = "as_completed"
                     /\ wpc' = [i \in TxSlots |-> Submit(i, n)]
                     /\ UNCHANGED <<wreceipt, addr, wcode, wbalance, result, collected>>
                     /\ UNCHANGED <<current, block_number>>
           ELSE SkipBlock /\ UNCHANGED workerVars
    /\ UNCHANGED <<from_block, max_workers, start_cursor, latest, events, seen_contracts>>
    /\ UNCHANGED envVars
    /\ UNCHANGED selectorVars

\* Lines 105-109: take the result of a completed future; yield it if any (the
\* caller takes the event and resumes the generator).
Collect(i) ==
    /\ pc = "as_completed"
    /\ wpc[i] = "done"
    /\ i \notin collected
    /\ collected' = collected \cup {i}
    /\ events' = IF result[i] # NoResult THEN Append(events, result[i]) ELSE events
    /\ UNCHANGED <<pc, from_block, max_workers, start_cursor, rr_w3, rr_log, current, latest, block_number,
                   block_log, seen_contracts>>
    /\ UNCHANGED <<wpc, wreceipt, addr, wcode, wbalance, result>>
    /\ UNCHANGED envVars
    /\ UNCHANGED selectorVars

AllCollected == \A i \in TxSlots : wpc[i] # "none" => i \in collected

\* The loop goes on to the next block without waiting for the futures.
ExitExecutorEarly ==
    /\ pc = "as_completed"
    /\ NextBlockOrEnd
    /\ UNCHANGED workerVars
    /\ UNCHANGED <<from_block, max_workers, start_cursor, rr_w3, rr_log, latest, events, block_log, seen_contracts>>
    /\ UNCHANGED envVars
    /\ UNCHANGED selectorVars

\* Line 99: the executor's block ends once every future has been taken.
ExitExecutor ==
    /\ pc = "as_completed"
    /\ AllCollected
    /\ NextBlockOrEnd
    /\ NoFutures
    /\ UNCHANGED <<from_block, max_workers, start_cursor, rr_w3, rr_log, latest, events, block_log, seen_contracts>>
    /\ UNCHANGED envVars
    /\ UNCHANGED selectorVars

\* ------------------------------------------------------------ _process_tx
\* The work units a pool thread is running.
Running == {i \in TxSlots : wpc[i] \in {"receipt", "seen_lock", "get_code",
                                          "get_balance", "discard"}}

\* Line 101: a free pool thread takes the oldest queued work item.
Start(i) ==
    /\ wpc[i] = "queued"
    /\ \A j \in TxSlots : j < i => wpc[j] # "queued"
    /\ Cardinality(Running) < max_workers
    /\ wpc' = [wpc EXCEPT ![i] = "receipt"]
    /\ UNCHANGED <<wreceipt, addr, wcode, wbalance, result, collected, rr_w3, rr_log,
                   seen_contracts>>
    /\ UNCHANGED loopVars
    /\ UNCHANGED envVars
    /\ UNCHANGED selectorVars

Finish(i, r) ==
    /\ wpc' = [wpc EXCEPT ![i] = "done"]
    /\ result' = [result EXCEPT ![i] = r]

ReceiptAddressRaw(receipt) ==
    IF receipt.contractAddress # NoAddress
    THEN receipt.contractAddress
    ELSE receipt.to

\* Lines 130-135: the address of a receipt.
ReceiptAddress(receipt) ==
    IF receipt.contractAddress # NoAddress
    THEN to_checksum_address(receipt.contractAddress)
    ELSE IF receipt.to # NoAddress
         THEN to_checksum_address(receipt.to)
         ELSE NoAddress

\* Lines 124-138.
GetReceipt(i) ==
    /\ wpc[i] = "receipt"
    /\ rr_advance
    /\ \E ok \in Outcomes :
        IF ok
        THEN \E receipt \in Receipts :
                /\ wreceipt' = [wreceipt EXCEPT ![i] = "fetched"]
                /\ addr' = [addr EXCEPT ![i] = ReceiptAddress(receipt)]
                /\ IF ReceiptAddress(receipt) = NoAddress
                   THEN Finish(i, NoResult)
                   ELSE /\ wpc' = [wpc EXCEPT ![i] = "seen_lock"]
                        /\ UNCHANGED result
        ELSE /\ wreceipt' = [wreceipt EXCEPT ![i] = "failed"]
             /\ Finish(i, NoResult)
             /\ UNCHANGED addr
    /\ UNCHANGED <<wcode, wbalance, collected, seen_contracts>>
    /\ UNCHANGED loopVars
    /\ UNCHANGED envVars
    /\ UNCHANGED selectorVars

TestAndSetUnchecked(i) ==
    /\ wpc[i] = "seen_lock"
    /\ seen_contracts' = seen_contracts \cup {addr[i]}
    /\ wpc' = [wpc EXCEPT ![i] = "get_code"]
    /\ UNCHANGED <<wreceipt, addr, wcode, wbalance, result, collected, rr_w3, rr_log>>
    /\ UNCHANGED loopVars
    /\ UNCHANGED envVars
    /\ UNCHANGED selectorVars

\* Lines 141-145: the test and the provisional insert, under the lock.
TestAndSet(i) ==
    /\ wpc[i] = "seen_lock"
    /\ IF addr[i] \in seen_contracts
       THEN Finish(i, NoResult) /\ UNCHANGED seen_contracts
       ELSE /\ seen_contracts' = seen_contracts \cup {addr[i]}
            /\ wpc' = [wpc EXCEPT ![i] = "get_code"]
            /\ UNCHANGED result
    /\ UNCHANGED <<wreceipt, addr, wcode, wbalance, collected, rr_w3, rr_log>>
    /\ UNCHANGED loopVars
    /\ UNCHANGED envVars
    /\ UNCHANGED selectorVars

\* Lines 148-160.
GetCode(i) ==
    /\ wpc[i] = "get_code"
    /\ rr_advance
    /\ \E ok \in Outcomes :
        IF ok
        THEN \E c \in chain_code[addr[i].id] :
                /\ wcode' = [wcode EXCEPT ![i] = c]
                /\ wpc' = [wpc EXCEPT ![i] =
                                IF c = "empty" THEN "discard" ELSE "get_balance"]
        ELSE /\ wcode' = [wcode EXCEPT ![i] = "failed"]
             /\ wpc' = [wpc EXCEPT ![i] = "discard"]
    /\ UNCHANGED <<wreceipt, addr, wbalance, result, collected, seen_contracts>>
    /\ UNCHANGED loopVars
    /\ UNCHANGED envVars
    /\ UNCHANGED selectorVars

AtLeastThreshold(b) == ~WeiGreater(Threshold, b)

\* Line 172.
AboveThreshold(b) == WeiGreater(b, Threshold)

\* Lines 163-173.
GetBalance(i) ==
    /\ wpc[i] = "get_balance"
    /\ rr_advance
    /\ \E ok \in Outcomes :
        IF ok
        THEN \E b \in chain_balance[addr[i].id] :
                /\ wbalance' = [wbalance EXCEPT ![i] = <<b>>]
                /\ IF AboveThreshold(b)
                   THEN Finish(i, <<addr[i], b>>)
                   ELSE /\ wpc' = [wpc EXCEPT ![i] = "discard"]
                        /\ UNCHANGED result
        ELSE /\ wpc' = [wpc EXCEPT ![i] = "discard"]
             /\ UNCHANGED <<wbalance, result>>
    /\ UNCHANGED <<wreceipt, addr, wcode, collected, seen_contracts>>
    /\ UNCHANGED loopVars
    /\ UNCHANGED envVars
    /\ UNCHANGED selectorVars

DiscardKeeps(i) ==
    /\ wpc[i] = "discard"
    /\ Finish(i, NoResult)
    /\ UNCHANGED <<wreceipt, addr, wcode, wbalance, collected, rr_w3, rr_log, seen_contracts>>
    /\ UNCHANGED loopVars
    /\ UNCHANGED envVars
    /\ UNCHANGED selectorVars

\* Lines 153-155, 158-160, 167-169, 176-178: un-mark under the lock, return.
Discard(i) ==
    /\ wpc[i] = "discard"
    /\ seen_contracts' = seen_contracts \ {addr[i]}
    /\ Finish(i, NoResult)
    /\ UNCHANGED <<wreceipt, addr, wcode, wbalance, collected, rr_w3, rr_log>>
    /\ UNCHANGED loopVars
    /\ UNCHANGED envVars
    /\ UNCHANGED selectorVars

Worker(i) ==
    \/ Start(i)
    \/ GetReceipt(i)
    \/ TestAndSet(i)
    \/ GetCode(i)
    \/ GetBalance(i)
    \/ Discard(i)

\* ------------------------------------------- get_working_public_nodes
Min(a, b) == IF a <= b THEN a ELSE b

\* Line 129: at most ten latency threads.
MaxLatencyThreads == 10

\* Lines 129, 154: the number of worker threads of the running phase.
NumThreads ==
    IF spc = "latency" THEN Min(MaxLatencyThreads, Len(all_nodes)) ELSE Len(top_nodes)

\* Lines 117-134: scrape the page, queue every node, start the latency threads.
Scrape ==
    /\ spc = "start"
    /\ \E k \in 0 .. MaxNodes :
        /\ all_nodes' = [j \in 1 .. k |-> j]
        /\ IF k = 0
           THEN spc' = "raised" /\ UNCHANGED queue
           ELSE spc' = "latency" /\ queue' = all_nodes'
    /\ UNCHANGED <<burst, top_n, holding, latency_results, top_nodes, rate_results,
                   working>>
    /\ UNCHANGED watcherVars

\* Lines 88, 99: queue.get_nowait().
Take(t) ==
    /\ spc \in {"latency", "rate"}
    /\ t <= NumThreads
    /\ holding[t] = NoNode
    /\ queue # <<>>
    /\ holding' = [holding EXCEPT ![t] = Head(queue)]
    /\ queue' = Tail(queue)
    /\ UNCHANGED <<spc, burst, top_n, all_nodes, latency_results, top_nodes,
                   rate_results, working>>
    /\ UNCHANGED watcherVars

\* Lines 91-94: measure the node taken and append the result under the lock.
ReportLatency(t) ==
    /\ spc = "latency"
    /\ holding[t] # NoNode
    /\ \E ms \in Latencies \cup {NoLatency} :
        latency_results' = Append(latency_results, <<holding[t], ms>>)
    /\ holding' = [holding EXCEPT ![t] = NoNode]
    /\ UNCHANGED <<spc, burst, top_n, all_nodes, queue, top_nodes, rate_results,
                   working>>
    /\ UNCHANGED watcherVars

\* Line 137.
Responsive(results) == SelectSeq(results, LAMBDA r : r[2] # NoLatency)

\* Line 142: list.sort(key=latency), a stable sort.
InsertByLatency(sorted, r) ==
    LET k == Cardinality({j \in 1 .. Len(sorted) : sorted[j][2] <= r[2]})
    IN  SubSeq(sorted, 1, k) \o <<r>> \o SubSeq(sorted, k + 1, Len(sorted))

RECURSIVE SortPrefix(_, _)
SortPrefix(results, n) ==
    IF n = 0 THEN <<>> ELSE InsertByLatency(SortPrefix(results, n - 1), results[n])

SortByLatency(results) == SortPrefix(results, Len(results))

\* Line 144: the names of the first top_n.
TopNodes(sorted, n) == [j \in 1 .. Min(n, Len(sorted)) |-> sorted[j][1]]

\* Lines 134-161: after the join, rank the responsive nodes and start the
\* burst probes of the first top_n.
Rank ==
    /\ spc = "latency"
    /\ Len(latency_results) = Len(all_nodes)
    /\ IF Responsive(latency_results) = <<>>
       THEN /\ spc' = "raised"
            /\ UNCHANGED <<top_nodes, queue>>
       ELSE /\ top_nodes' = TopNodes(SortByLatency(Responsive(latency_results)), top_n)
            /\ queue' = top_nodes'
            /\ spc' = "rate"
    /\ UNCHANGED <<burst, top_n, all_nodes, holding, latency_results, rate_results,
                   working>>
    /\ UNCHANGED watcherVars

\* Lines 102-105: probe the node taken and append the result under the lock.
ReportRate(t) ==
    /\ spc = "rate"
    /\ holding[t] # NoNode
    /\ \E success_count \in 0 .. burst :
        rate_results' = Append(rate_results, <<holding[t], success_count>>)
    /\ holding' = [holding EXCEPT ![t] = NoNode]
    /\ UNCHANGED <<spc, burst, top_n, all_nodes, queue, latency_results, top_nodes,
                   working>>
    /\ UNCHANGED watcherVars

PassedAny(succ, b) == succ >= 1

\* Line 167.
PassedBurst(succ, b) == succ = b

\* Lines 165-168.
Working(results, b) ==
    LET passed == SelectSeq(results, LAMBDA r : PassedBurst(r[2], b))
    IN  [j \in 1 .. Len(passed) |-> passed[j][1]]

\* Lines 162-170: after the join, return the nodes that passed.
Return ==
    /\ spc = "rate"
    /\ Len(rate_results) = Len(top_nodes)
    /\ working' = Working(rate_results, burst)
    /\ spc' = "returned"
    /\ UNCHANGED <<burst, top_n, all_nodes, queue, holding, latency_results,
                   top_nodes, rate_results>>
    /\ UNCHANGED watcherVars

InitSelect ==
    /\ head = 0
    /\ up_at_start = [e \in Endpoints |-> FALSE]
    /\ flaky = TRUE
    /\ chain_code = [a \in AddressIds |-> CodeValues]
    /\ chain_balance = [a \in AddressIds |-> Balances]
    /\ from_block = NoBlock
    /\ max_workers = DefaultMaxWorkers
    /\ risen_at = NotRisen
    /\ WatcherStart
    /\ burst \in 1 .. MaxBurst
    /\ top_n \in 0 .. MaxNodes
    /\ SelectorStart

NextSelect ==
    \/ Scrape
    \/ \E t \in Threads : Take(t)
    \/ \E t \in Threads : ReportLatency(t)
    \/ Rank
    \/ \E t \in Threads : ReportRate(t)
    \/ Return

SpecSelect == InitSelect /\ [][NextSelect]_vars

Next ==
    \/ NewBlock
    \/ InitHead
    \/ Poll
    \/ Sleep
    \/ GetBlock
    \/ \E i \in TxSlots : Collect(i)
    \/ ExitExecutor
    \/ \E i \in TxSlots : Worker(i)

Spec == Init /\ [][Next]_vars

\* No request fails, and every address keeps its code and its balance.
InitStable ==
    /\ head \in BlockNumbers
    /\ up_at_start = [e \in Endpoints |-> TRUE]
    /\ flaky = FALSE
    /\ chain_code \in [AddressIds -> {{c} : c \in CodeValues}]
    /\ chain_balance \in [AddressIds -> {{b} : b \in Balances}]
    /\ from_block \in BlockNumbers \cup {NoBlock}
    /\ max_workers \in MaxWorkersArgs
    /\ risen_at = NotRisen
    /\ WatcherStart
    /\ burst = 1
    /\ top_n = 1
    /\ SelectorStart

SpecStable == InitStable /\ [][Next]_vars

\* ------------------------------------------------------------- properties
EventsFor(id) == {k \in 1 .. Len(events) : events[k][1].id = id}
Submitted == {i \in TxSlots : wpc[i] # "none"}
Refs(id) == {i \in Submitted : addr[i].id = id}
Evaluating(a) == {i \in TxSlots : wpc[i] \in {"get_code", "get_balance", "discard"}
                                  /\ addr[i] = a}
AllDown == \A e \in Endpoints : ~up_at_start[e]

\* C1: in any run, whatever the interleaving of the workers and whichever
\* requests fail, at most one event is ever yielded for an address.
C1_AtMostOneEventPerAddress ==
    \A id \in AddressIds : Cardinality(EventsFor(id)) <= 1

\* An address reported in an earlier block is referenced again and rejected.
C1_Witness ==
    /\ Len(events) = 1
    /\ \A i \in TxSlots : result[i] = NoResult
    /\ \E i \in TxSlots :
        /\ wpc[i] = "done"
        /\ wcode[i] = "unfetched"
        /\ addr[i] = events[1][1]

\* C2: with no failing request and fixed code and balances, once a block's
\* futures are all collected, an address that two or more of its transactions
\* resolve to, with code and a balance above the threshold, has exactly one
\* event; an address without code or with a balance not above the threshold
\* never has one.
Reportable(id) ==
    /\ chain_code[id] = {"code"}
    /\ \A b \in chain_balance[id] : WeiGreater(b, Wei(100000000, 0))

C2_ExactlyOneEventInBlock ==
    /\ (pc = "as_completed" /\ AllCollected) =>
            \A id \in AddressIds :
                (Cardinality(Refs(id)) >= 2 /\ Reportable(id)) =>
                    Cardinality(EventsFor(id)) = 1
    /\ \A id \in AddressIds : ~Reportable(id) => EventsFor(id) = {}

\* Both transactions of a block resolve to one reportable address, first seen
\* in this block.
C2_Witness ==
    /\ pc = "as_completed"
    /\ AllCollected
    /\ \E id \in AddressIds :
        /\ Cardinality(Refs(id)) >= 2
        /\ Reportable(id)
        /\ \E i \in Refs(id) : result[i] # NoResult
        /\ Cardinality(EventsFor(id)) = 1

\* C3: a finished worker returns an event exactly when get_code returned
\* non-empty code and get_balance returned more than 10^17 wei; 10^17 itself is
\* not reported, 10^17 + 1 is; the event carries the fetched balance, and so
\* does every event yielded.
C3_ThresholdBoundary ==
    /\ \A i \in TxSlots : wpc[i] = "done" =>
        /\ result[i] # NoResult <=>
                /\ wcode[i] = "code"
                /\ wbalance[i] # <<>>
                /\ WeiGreater(wbalance[i][1], Wei(100000000, 0))
        /\ result[i] # NoResult => result[i] = <<addr[i], wbalance[i][1]>>
        /\ wbalance[i] = <<Wei(100000000, 0)>> => result[i] = NoResult
        /\ wbalance[i] = <<Wei(100000000, 1)>> => result[i] # NoResult
    /\ \A k \in 1 .. Len(events) : WeiGreater(events[k][2], Wei(100000000, 0))

\* One worker fetched exactly 10^17 and returned nothing, another fetched
\* 10^17 + 1 and returned the event.
C3_Witness ==
    \E i, j \in TxSlots :
        /\ wpc[i] = "done" /\ wbalance[i] = <<Wei(100000000, 0)>>
        /\ result[i] = NoResult
        /\ wpc[j] = "done" /\ wbalance[j] = <<Wei(100000000, 1)>>
        /\ result[j] = <<addr[j], Wei(100000000, 1)>>

\* C4: an address is in seen_contracts only while exactly one worker is
\* between its test-and-set and its return, or after its balance was confirmed
\* above the threshold; and when a worker returns after a failed or empty code
\* fetch, a failed balance fetch or a balance not above the threshold, the
\* address is not in the set.
Confirmed(a) ==
    \/ \E k \in 1 .. Len(events) : events[k][1] = a
    \/ \E i \in TxSlots : wpc[i] = "done" /\ result[i] # NoResult /\ result[i][1] = a

SeenOnlyWhileEvaluatedOrConfirmed ==
    \A a \in seen_contracts : Cardinality(Evaluating(a)) = 1 \/ Confirmed(a)

ReleasedOnReturn ==
    \A i \in TxSlots :
        (wpc[i] \in {"get_code", "get_balance", "discard"} /\ wpc'[i] = "done"
         /\ result'[i] = NoResult) => addr[i] \notin seen_contracts'

C4_SeenSetInvariant ==
    [] SeenOnlyWhileEvaluatedOrConfirmed /\ [][ReleasedOnReturn]_vars

\* A worker has released its address while the other address stays in the set.
C4_Witness ==
    \E i \in TxSlots :
        /\ wpc[i] = "done"
        /\ wcode[i] \in {"empty", "failed"}
        /\ addr[i] \notin seen_contracts
        /\ seen_contracts # {}

\* C5: the scan cursor never decreases.
C5_CursorNeverDecreases == [][current' >= current]_vars

\* A poll returned a head below the cursor.
C5_Witness ==
    /\ pc = "sleep"
    /\ latest # NoBlock
    /\ latest < current
    /\ block_log # <<>>

\* C6: when the range loop ends, the cursor is the head that the poll which
\* started the range returned, whatever block fetches failed.
C6_CursorReachesPolledHead ==
    [][(pc \in {"get_block", "as_completed"} /\ pc' = "poll") =>
            (latest > current /\ latest' = latest /\ current' = latest)]_vars

\* A range of two blocks ended with both block fetches failed.
C6_Witness ==
    /\ pc = "poll"
    /\ current = latest
    /\ Len(block_log) >= 2
    /\ \A k \in 1 .. Len(block_log) : ~block_log[k][2]

\* C7: the nodes returned are exactly the burst-probed nodes whose
\* success_count equals burst, and the probed nodes are the top_n of the
\* responsive nodes by latency.
LatencyOf(n) == (CHOOSE r \in {latency_results[k] : k \in 1 .. Len(latency_results)} :
                    r[1] = n)[2]
ResponsiveNodes == {n \in {all_nodes[k] : k \in 1 .. Len(all_nodes)} :
                        LatencyOf(n) # NoLatency}
Probed == {rate_results[k][1] : k \in 1 .. Len(rate_results)}
SuccessCount(n) == (CHOOSE r \in {rate_results[k] : k \in 1 .. Len(rate_results)} :
                        r[1] = n)[2]
Returned == {working[k] : k \in 1 .. Len(working)}

C7_ReturnsExactlyThePassing ==
    spc = "returned" =>
        /\ Probed \subseteq ResponsiveNodes
        /\ Cardinality(Probed) = Min(top_n, Cardinality(ResponsiveNodes))
        /\ \A p \in Probed, q \in ResponsiveNodes \ Probed : LatencyOf(p) <= LatencyOf(q)
        /\ Returned = {n \in Probed : SuccessCount(n) = burst}
        /\ Len(working) = Cardinality(Returned)

\* One probed node passed, one probed node failed the burst, and one
\* responsive node was not probed.
C7_Witness ==
    /\ spc = "returned"
    /\ Returned # {}
    /\ \E n \in Probed : SuccessCount(n) < burst /\ SuccessCount(n) >= 1
    /\ ResponsiveNodes \ Probed # {}

\* C8: the list returned is sorted by latency.
C8_ReturnedInLatencyOrder ==
    spc = "returned" =>
        \A j, k \in 1 .. Len(working) :
            j < k => LatencyOf(working[j]) <= LatencyOf(working[k])

\* C9: when no endpoint answers the first head fetch, the generator ends with
\* the startup error: no event, no worker, no step after the error.
WatcherStep ==
    \/ InitHead
    \/ Poll
    \/ Sleep
    \/ GetBlock
    \/ \E i \in TxSlots : Collect(i)
    \/ ExitExecutor
    \/ \E i \in TxSlots : Worker(i)

C9_FatalWhenAllFail ==
    AllDown =>
        /\ pc \in {"init", "fatal"}
        /\ events = <<>>
        /\ Submitted = {}
        /\ block_log = <<>>
        /\ pc = "fatal" => ~ENABLED WatcherStep

\* The startup error with a starting block supplied.
C9_Witness ==
    /\ AllDown
    /\ pc = "fatal"
    /\ from_block # NoBlock

\* C10: the startup error only happens when no endpoint answers the head
\* request.
C10_FatalOnlyWhenAllFail == pc = "fatal" => AllDown

\* C11: when no endpoint survives selection the function returns an empty list
\* and does not raise, also when every candidate's latency is absent: the error
\* is kept for an empty candidate list.
C11_EmptyListNotRaise == spc = "raised" => all_nodes = <<>>

\* ---------------------------------------------------------- cancellation
\* main.py lines 30-80: Ctrl+C raises KeyboardInterrupt in the main thread, which
\* is in the generator or in the loop body that resumed it. Inside the with
\* block of line 99 the exception leaves through the executor's __exit__,
\* shutdown(wait=True), which neither cancels the queued work items nor stops
\* the running ones.
Interrupt ==
    /\ pc \in {"poll", "sleep", "get_block", "as_completed"}
    /\ pc' = IF pc = "as_completed" THEN "shutdown" ELSE "exited"
    /\ UNCHANGED <<from_block, max_workers, start_cursor, rr_w3, rr_log, current, latest, block_number,
                   events, block_log, seen_contracts>>
    /\ UNCHANGED envVars
    /\ UNCHANGED workerVars
    /\ UNCHANGED selectorVars

\* The pool's threads have run every work item: the exception reaches main's
\* handler (lines 78-80), which exits.
Shutdown ==
    /\ pc = "shutdown"
    /\ \A i \in TxSlots : wpc[i] \in {"none", "done"}
    /\ pc' = "exited"
    /\ UNCHANGED <<from_block, max_workers, start_cursor, rr_w3, rr_log, current, latest, block_number,
                   events, block_log, seen_contracts>>
    /\ UNCHANGED envVars
    /\ UNCHANGED workerVars
    /\ UNCHANGED selectorVars

NextCancel ==
    \/ Next
    \/ Interrupt
    \/ Shutdown

SpecCancel == Init /\ [][NextCancel]_vars

\* C12: once cancellation is requested while a block is being processed, a work
\* unit that is queued and not yet started stays unstarted: it begins no fetch.
C12_QueuedNeverStartAfterCancel ==
    [][pc = "shutdown" =>
          \A i \in TxSlots : wpc[i] = "queued" => wpc'[i] = "queued"]_vars

\* ------------------------------------------------- balances that move
\* The balances an address moves between: the threshold and one wei above it.
MovingBalances == {Threshold, WeiSucc(Threshold)}

\* The balance of an address already reported drops to the threshold.
BalanceDrop(id) ==
    /\ EventsFor(id) # {}
    /\ \A b \in chain_balance[id] : AboveThreshold(b)
    /\ \E b \in MovingBalances :
        /\ ~AboveThreshold(b)
        /\ chain_balance' = [chain_balance EXCEPT ![id] = {b}]
    /\ UNCHANGED <<head, up_at_start, flaky, chain_code, risen_at, rr_w3, rr_log,
                   seen_contracts>>
    /\ UNCHANGED loopVars
    /\ UNCHANGED workerVars
    /\ UNCHANGED selectorVars

\* The balance rises above the threshold again.
BalanceRise(id) ==
    /\ EventsFor(id) # {}
    /\ \A b \in chain_balance[id] : ~AboveThreshold(b)
    /\ \E b \in MovingBalances :
        /\ AboveThreshold(b)
        /\ chain_balance' = [chain_balance EXCEPT ![id] = {b}]
    /\ risen_at' = [risen_at EXCEPT ![id] = Len(block_log)]
    /\ UNCHANGED <<head, up_at_start, flaky, chain_code, rr_w3, rr_log, seen_contracts>>
    /\ UNCHANGED loopVars
    /\ UNCHANGED workerVars
    /\ UNCHANGED selectorVars

\* No request fails, every address has code, and get_balance returns the
\* balance the address has at the call.
InitRise ==
    /\ head \in BlockNumbers
    /\ up_at_start = [e \in Endpoints |-> TRUE]
    /\ flaky = FALSE
    /\ chain_code = [a \in AddressIds |-> {"code"}]
    /\ chain_balance \in [AddressIds -> {{b} : b \in MovingBalances}]
    /\ from_block \in BlockNumbers \cup {NoBlock}
    /\ max_workers \in MaxWorkersArgs
    /\ risen_at = NotRisen
    /\ WatcherStart
    /\ burst = 1
    /\ top_n = 1
    /\ SelectorStart

NextRise ==
    \/ Next
    \/ \E id \in AddressIds : BalanceDrop(id)
    \/ \E id \in AddressIds : BalanceRise(id)

SpecRise == InitRise /\ [][NextRise]_vars

\* The block being processed was fetched after the balance of the reported
\* address dropped and rose back.
Subsequent(id) == risen_at[id] # NoBlock /\ Len(block_log) > risen_at[id]

\* C13 as stated: a transaction that references a reported address after its
\* balance dropped and rose back yields a further event for it.
C13_FurtherEventAfterRise ==
    (pc = "as_completed" /\ AllCollected) =>
        \A id \in AddressIds :
            (Subsequent(id) /\ Reportable(id) /\ Refs(id) # {}) =>
                Cardinality(EventsFor(id)) >= 2

\* C13: a transaction that references a reported address after its balance
\* dropped and rose back yields no further event: its worker returns at the
\* seen-set test, fetching neither code nor balance, and the address keeps its
\* single event.
C13_NoEventAfterRise ==
    \A id \in AddressIds :
        Subsequent(id) =>
            /\ Cardinality(EventsFor(id)) = 1
            /\ \A i \in Refs(id) :
                /\ wpc[i] \in {"seen_lock", "done"}
                /\ wcode[i] = "unfetched"
                /\ wbalance[i] = <<>>
                /\ result[i] = NoResult

\* A block fetched after the rise references the address, whose balance is
\* above the threshold, and every future of the block has been collected.
C13_Witness ==
    /\ pc = "as_completed"
    /\ AllCollected
    /\ \E id \in AddressIds :
        /\ Subsequent(id)
        /\ Reportable(id)
        /\ \E i \in Refs(id) : wpc[i] = "done"

\* C14: with a starting block supplied, scanning starts from that block: the
\* first block fetched is the starting block itself.
C14_StartsAtFromBlock ==
    (from_block # NoBlock /\ block_log # <<>>) => block_log[1][1] = from_block

EvaluatingId(id) ==
    {i \in TxSlots : wpc[i] \in {"get_code", "get_balance", "discard"} /\ addr[i].id = id}

C16_OneEvaluatorPerAddress ==
    \A id \in AddressIds :
        /\ Cardinality(EvaluatingId(id)) <= 1
        /\ \A i \in EvaluatingId(id) : addr[i] \in seen_contracts

\* One worker is evaluating an address while another worker of the same block
\* that resolved to it has returned at the test without fetching its code.
C16_Witness ==
    \E i, j \in TxSlots :
        /\ i # j
        /\ i \in EvaluatingId(addr[i].id)
        /\ addr[j] = addr[i]
        /\ wpc[j] = "done"
        /\ wcode[j] = "unfetched"

\* C17: blocks are processed one after the other: the loop leaves a block's
\* executor only when every work unit of the block has completed and its result
\* has been collected, and outside the executor (about to fetch a block,
\* polling or sleeping) no work unit exists. The units of one block run
\* concurrently, never more than max_workers at a time, which is twice the
\* number of endpoints unless the caller gave it; the others wait in the
\* pool's queue.
UnitsBounded ==
    /\ pc # "as_completed" => Submitted = {}
    /\ Cardinality(Running) <= max_workers
    /\ max_workers \in {1, 2 * NumEndpoints}

LeavesBlockWhenAllCollected ==
    (pc = "as_completed" /\ pc' # "as_completed") =>
        /\ AllCollected
        /\ \A i \in Submitted : wpc[i] = "done"

C17_BlocksSequentialUnitsBounded ==
    [] UnitsBounded /\ [][LeavesBlockWhenAllCollected]_vars

\* A second block is being processed by a pool of one thread: one of its units
\* runs while the other waits in the queue.
C17_Witness ==
    /\ pc = "as_completed"
    /\ Len(block_log) >= 2
    /\ block_log[Len(block_log) - 1][2]
    /\ max_workers = 1
    /\ Cardinality(Running) = 1
    /\ \E i \in TxSlots : wpc[i] = "queued"

\* The range loop is at a block: about to fetch it, or collecting its futures.
InRange == pc \in {"get_block", "as_completed"}

\* C18 as stated: while a range is processed the cursor is the last completed
\* block, so when a block is about to be fetched the cursor is the block before.
C18_CursorFollowsEachBlock == pc = "get_block" => current = block_number - 1

\* C18: while a range is processed the cursor keeps the value it had before the
\* range, below every block of the range; it moves once, to the polled head,
\* when the loop leaves the last block of the range.
CursorKeptInRange ==
    /\ (InRange /\ InRange') => current' = current
    /\ InRange => current < block_number /\ block_number <= latest
    /\ (InRange /\ ~InRange') => (block_number = latest /\ current' = latest)

C18_CursorMovesAfterRange == [][CursorKeptInRange]_vars

\* The second block of a range is about to be fetched, the first one fetched,
\* and the cursor is still the value from before the range.
C18_Witness ==
    /\ pc = "get_block"
    /\ block_number = current + 2
    /\ block_log # <<>>
    /\ block_log[Len(block_log)] = <<current + 1, TRUE>>

\* C19: a failed block fetch affects only that block. The step of the failed
\* fetch submits no worker, yields no event and leaves the seen set as it was,
\* and the loop goes on to the next block of the range, or ends the range after
\* the last one; so the blocks fetched in a range are consecutive, none left
\* out after a failure.
LastFetch(log) == log[Len(log)]

FailedFetchSkipsOnlyThatBlock ==
    (block_log' # block_log /\ ~LastFetch(block_log')[2]) =>
        /\ seen_contracts' = seen_contracts
        /\ events' = events
        /\ wpc' = NoWorkers
        /\ pc' # "fatal"
        /\ IF block_number < latest
           THEN pc' = "get_block" /\ block_number' = block_number + 1
           ELSE pc' = "poll" /\ current' = latest

FetchedWithoutGaps ==
    \A k \in 1 .. Len(block_log) : k < Len(block_log) =>
        block_log[k + 1][1] = block_log[k][1] + 1

C19_FailedFetchSkipsBlock ==
    [] FetchedWithoutGaps /\ [][FailedFetchSkipsOnlyThatBlock]_vars

\* A block's fetch failed and the next block of the same range was fetched.
C19_Witness ==
    /\ Len(block_log) >= 2
    /\ ~block_log[Len(block_log) - 1][2]
    /\ block_log[Len(block_log)][2]
    /\ InRange
    /\ current < block_log[Len(block_log) - 1][1]

\* C20: a poll whose head fetch fails, or returns a head not above the cursor,
\* raises nothing and changes nothing: the cursor, the seen set, the events and
\* the blocks fetched stay as they were and no worker exists; the loop sleeps
\* one poll interval and polls again, with the next endpoint of the rotation.
PollWithoutNewBlocks ==
    (pc = "poll" /\ pc' # "get_block" /\ pc' # pc) =>
        /\ pc' = "sleep"
        /\ current' = current
        /\ seen_contracts' = seen_contracts
        /\ events' = events
        /\ block_log' = block_log
        /\ wpc' = NoWorkers
        /\ rr_w3' = (rr_w3 + 1) % NumEndpoints

SleepThenPoll ==
    (pc = "sleep" /\ pc' # pc) =>
        /\ pc' = "poll"
        /\ current' = current
        /\ seen_contracts' = seen_contracts
        /\ events' = events
        /\ block_log' = block_log
        /\ rr_w3' = rr_w3

C20_FailedPollChangesNothing ==
    /\ [](pc = "sleep" => ENABLED Sleep)
    /\ [][PollWithoutNewBlocks /\ SleepThenPoll]_vars

\* The loop sleeps after a failed head fetch: the head it last saw is still
\* above the cursor.
C20_Witness ==
    /\ pc = "sleep"
    /\ latest > current
    /\ rr_log # <<>>

\* C21: an address that a worker evaluated and released (empty code, failed
\* code fetch, failed balance fetch, balance not above the threshold) is
\* eligible again. While no other worker holds it, it is not in seen_contracts;
\* a worker whose address is not in the set passes the test and goes on to
\* fetch its code; and a later worker for the released address whose fetches
\* return code and a balance above the threshold returns the event, which is
\* yielded when its future is collected.
ReleasedBy(j) ==
    /\ wpc[j] = "done"
    /\ result[j] = NoResult
    /\ wcode[j] # "unfetched"

Held(a) == Evaluating(a) # {} \/ Confirmed(a)

\* Whichever block released it, an address no worker holds is not in the set.
ReleasedNotSeen ==
    /\ \A a \in seen_contracts : Held(a)
    /\ \A j \in TxSlots : (ReleasedBy(j) /\ ~Held(addr[j])) => addr[j] \notin seen_contracts

ReportedAfterRelease ==
    \A i, j \in TxSlots :
        (/\ ReleasedBy(j)
         /\ addr[i] = addr[j]
         /\ wpc[i] = "done"
         /\ wcode[i] = "code"
         /\ wbalance[i] # <<>>
         /\ AboveThreshold(wbalance[i][1])) =>
            /\ result[i] = <<addr[i], wbalance[i][1]>>
            /\ i \in collected => \E k \in 1 .. Len(events) : events[k] = result[i]

PassesTestWhenNotSeen ==
    \A i \in TxSlots :
        (wpc[i] = "seen_lock" /\ wpc'[i] # "seen_lock" /\ addr[i] \notin seen_contracts) =>
            wpc'[i] = "get_code" /\ addr[i] \in seen_contracts'

C21_ReleasedEligibleAgain ==
    /\ [] (ReleasedNotSeen /\ ReportedAfterRelease)
    /\ [][PassesTestWhenNotSeen]_vars

\* In one block a worker released an address and a later worker for the same
\* address returned the event, which has been yielded.
C21_Witness ==
    \E i, j \in TxSlots :
        /\ ReleasedBy(j)
        /\ addr[i] = addr[j]
        /\ wpc[i] = "done"
        /\ result[i] # NoResult
        /\ i \in collected
        /\ \E k \in 1 .. Len(events) : events[k] = result[i]

\* ------------------------------------------------------------- progress
\* A head fetch that succeeds and returns the chain's head: with that head
\* above the cursor the range loop starts.
PollHead ==
    /\ Poll
    /\ latest' = head
    /\ NoNewBlocks(head) \/ pc' = "get_block"

\* The generator is resumed whenever it yields, every call a thread makes
\* returns, the pool's threads are scheduled, and of the head fetches made
\* again and again some succeed with the chain's head.
Fairness ==
    /\ WF_vars(InitHead)
    /\ SF_vars(PollHead)
    /\ WF_vars(Sleep)
    /\ WF_vars(GetBlock)
    /\ WF_vars(ExitExecutor)
    /\ \A i \in TxSlots : WF_vars(Collect(i))
    /\ \A i \in TxSlots : WF_vars(Worker(i))

\* Any request may fail; every address has code and a balance above the
\* threshold, so a worker ends with an event or, after a failed fetch, without.
InitLive ==
    /\ head \in BlockNumbers
    /\ up_at_start \in [Endpoints -> BOOLEAN]
    /\ flaky = TRUE
    /\ chain_code = [a \in AddressIds |-> {"code"}]
    /\ chain_balance = [a \in AddressIds |-> {WeiSucc(Threshold)}]
    /\ from_block \in BlockNumbers \cup {NoBlock}
    /\ max_workers \in MaxWorkersArgs
    /\ risen_at = NotRisen
    /\ WatcherStart
    /\ burst = 1
    /\ top_n = 1
    /\ SelectorStart

SpecLive == InitLive /\ [][Next]_vars /\ Fairness

\* C22: once initialized, whenever the chain head is above the cursor the
\* cursor eventually reaches that head; and the loop never ends: it never
\* raises after initialization and always has a next step.
C22_Progress ==
    /\ \A h \in BlockNumbers :
        (pc \notin {"init", "fatal"} /\ head = h /\ current < h) ~> (current >= h)
    /\ [](pc \notin {"init", "fatal"} => ENABLED WatcherStep)
    /\ [][pc \notin {"init", "fatal"} => pc' # "fatal"]_vars

\* The cursor has reached the chain's highest head after a range in which a
\* block's fetch failed.
C22_Witness ==
    /\ pc = "poll"
    /\ current = MaxHead
    /\ head = MaxHead
    /\ start_cursor < MaxHead
    /\ \E k \in 1 .. Len(block_log) : ~block_log[k][2]

\* C23: the block numbers fetched are strictly increasing, so no block is
\* fetched twice and a block whose fetch failed is never fetched again; every
\* one of them is above the starting cursor (the caller's block number, or the
\* head at initialization); and workers only ever exist for a block whose
\* fetch succeeded, so the transactions of a failed block are never inspected.
FetchedAboveStart ==
    /\ \A k, l \in 1 .. Len(block_log) : k < l => block_log[k][1] < block_log[l][1]
    /\ \A k \in 1 .. Len(block_log) : block_log[k][1] > start_cursor
    /\ block_log # <<>> => start_cursor # NoBlock
    /\ Submitted # {} => (block_log # <<>> /\ LastFetch(block_log)[2])

StartsAtGivenBlockOrHead ==
    (pc = "init" /\ pc' = "poll") =>
        /\ start_cursor' = IF from_block # NoBlock THEN from_block ELSE latest'
        /\ current' = start_cursor'

====
